---- MODULE Spec2Model ----
(***************************************************************************)
(* A model of the Minecraft-skin render library (src/src/lib.rs):          *)
(* the texture sampler (interpolate_nearest, sample_texture), the          *)
(* quantizer (to_u8_clamped), the per-pixel lighting and gamma blend       *)
(* (blend_layer_with_base, alpha_blend), the layer pipeline                *)
(* (create_render) and the frame compositor (create_chara_image,           *)
(* copy_alpha).                                                            *)
(*                                                                         *)
(* f32 values are modelled as exact rationals <<n, d>> in lowest terms     *)
(* with d > 0.  The two powf calls of alpha_blend are modelled by a        *)
(* fixed-point table of x^2.2 (see Pow22Table).                            *)
(***************************************************************************)
EXTENDS Integers, Sequences, FiniteSets, TLC

VARIABLES
    \* one call of a pure function: its arguments, its position, its result
    args, pc, ret,
    \* blend_layer_with_base / create_render: the canvas, the layer's maps,
    \* the skin texture, the pixels the running pass has still to visit
    base, layer_uvs, lighting, texture, pending, status,
    \* the canvas at the start of the running pass, the passes run so far
    baseBefore, blended,
    \* create_chara_image: its arguments, the image after warp_into_with,
    \* the returned image, its position
    chara, warped, output, cpc

pureVars == <<args, pc, ret>>
canvasVars == <<base, layer_uvs, lighting, texture, pending, status, baseBefore, blended>>
charaVars == <<chara, warped, output, cpc>>
vars == <<args, pc, ret, base, layer_uvs, lighting, texture, pending, status,
          baseBefore, blended, chara, warped, output, cpc>>

----------------------------------------------------------------------------
(* Bounds of the model *)

\* largest texture dimension the sampler is called with
MaxDim == 4
\* width and height of the render canvas and of the layer maps
CanvasW == 2
CanvasH == 1
\* number of blend passes run on one canvas
MaxPasses == 2

(* Program constants *)

U8Max == 255
U16Max == 65535

----------------------------------------------------------------------------
(* f32 arithmetic as exact rationals *)

Abs(i) == IF i < 0 THEN -i ELSE i

Min(a, b) == IF a <= b THEN a ELSE b

Max(a, b) == IF a >= b THEN a ELSE b

RECURSIVE GCD(_, _)
GCD(a, b) == IF b = 0 THEN a ELSE GCD(b, a % b)

\* the rational n/d in lowest terms (d > 0)
Rat(n, d) ==
    LET g == GCD(Abs(n), d)
    IN  IF g = 0 THEN <<0, 1>> ELSE <<n \div g, d \div g>>

RInt(i) == <<i, 1>>

\* a * b, cancelling across before multiplying
RMul(a, b) ==
    LET g1 == Max(1, GCD(Abs(a[1]), b[2]))
        g2 == Max(1, GCD(Abs(b[1]), a[2]))
    IN  Rat((a[1] \div g1) * (b[1] \div g2), (a[2] \div g2) * (b[2] \div g1))

RAdd(a, b) ==
    LET g == GCD(a[2], b[2])
    IN  Rat(a[1] * (b[2] \div g) + b[1] * (a[2] \div g), (a[2] \div g) * b[2])

RSub(a, b) == RAdd(a, <<-b[1], b[2]>>)

RLeq(a, b) == a[1] * b[2] <= b[1] * a[2]

\* f32::floor
RFloor(a) == a[1] \div a[2]

\* f32::round: to the nearest integer, halves away from zero
RRound(a) ==
    IF a[1] >= 0
    THEN (2 * a[1] + a[2]) \div (2 * a[2])
    ELSE -((2 * (-a[1]) + a[2]) \div (2 * a[2]))

\* `f as u32` of a floored f32: saturating, a negative value gives 0
\* (the saturation at 2^32 - 1 is out of reach of the bounded coordinates)
AsU32(i) == IF i < 0 THEN 0 ELSE i

----------------------------------------------------------------------------
(* Images: [w, h, px] with px a function on (0..w-1) \X (0..h-1) *)

Coords(w, h) == (0 .. w - 1) \X (0 .. h - 1)

Image(w, h, f(_, _)) == [w |-> w, h |-> h, px |-> [p \in Coords(w, h) |-> f(p[1], p[2])]]

\* ImageBuffer::get_pixel panics outside the image
InBounds(img, x, y) == x >= 0 /\ x < img.w /\ y >= 0 /\ y < img.h

GetPixel(img, x, y) == img.px[<<x, y>>]

\* ImageBuffer::new: every channel 0
NewImageBuffer(w, h) == [w |-> w, h |-> h, px |-> [p \in Coords(w, h) |-> <<0, 0, 0, 0>>]]

----------------------------------------------------------------------------
(* Conversions *)

NormalizeU8(u) == Rat(u, U8Max)

NormalizeRgbaU8(pixel) ==
    <<NormalizeU8(pixel[1]), NormalizeU8(pixel[2]), NormalizeU8(pixel[3]), NormalizeU8(pixel[4])>>

NormalizeU16(u) == Rat(u, U16Max)

NormalizeRgbaU16(pixel) ==
    <<NormalizeU16(pixel[1]), NormalizeU16(pixel[2]), NormalizeU16(pixel[3]), NormalizeU16(pixel[4])>>

\* a faulty variant, for comparison: the cast truncates instead of rounding
ToU8ClampedTruncating(x) ==
    LET result == RFloor(RMul(x, RInt(U8Max)))
    IN  IF result < 0 THEN 0 ELSE IF result > U8Max THEN U8Max ELSE result

ToU8Clamped(x) ==
    LET result == RRound(RMul(x, RInt(U8Max)))
    IN  IF result < 0 THEN 0 ELSE IF result > U8Max THEN U8Max ELSE result

----------------------------------------------------------------------------
(* Texture sampler *)

\* a faulty variant, for comparison: no clamp to the last index
NearestUnclamped(f, max_val) == AsU32(RFloor(RMul(f, RInt(max_val))))

\* a faulty variant, for comparison: rounds coord * dim to the nearest integer, without the half-pixel offset
NearestRounded(f, max_val) == Min(AsU32(RRound(RMul(f, RInt(max_val)))), max_val - 1)

\* the closure `nearest` of interpolate_nearest
Nearest(f, max_val) == Min(AsU32(RFloor(RMul(f, RInt(max_val)))), max_val - 1)

InterpolateNearest(x, y, width, height) == <<Nearest(x, width), Nearest(y, height)>>

\* the index sample_texture hands to get_pixel: v is flipped to 1 - v
SampleIndex(image, u, v) == InterpolateNearest(u, RSub(RInt(1), v), image.w, image.h)

SampleTexture(image, u, v) ==
    LET p == SampleIndex(image, u, v) IN GetPixel(image, p[1], p[2])

----------------------------------------------------------------------------
(* Lighting and blend engine *)

\* round(2^20 * (j/510)^2.2) for j = 0..1020: x^2.2 on [0, 2] in steps of
\* 1/510, the half steps of an 8-bit channel, in 20-bit fixed point
Pow22Table ==
    <<
       0, 1, 5, 13, 24, 40, 60, 84, 112, 146, 184, 226,
       274, 327, 385, 448, 516, 590, 669, 754, 844, 939, 1041, 1147,
       1260, 1379, 1503, 1633, 1769, 1911, 2059, 2213, 2373, 2539, 2711, 2890,
       3075, 3266, 3463, 3667, 3877, 4093, 4316, 4545, 4781, 5024, 5272, 5528,
       5790, 6059, 6334, 6616, 6905, 7200, 7503, 7812, 8128, 8450, 8780, 9116,
       9460, 9810, 10167, 10532, 10903, 11281, 11667, 12059, 12458, 12865, 13279, 13700,
       14128, 14563, 15006, 15455, 15912, 16377, 16848, 17327, 17813, 18307, 18808, 19316,
       19832, 20355, 20885, 21423, 21969, 22522, 23082, 23650, 24226, 24809, 25400, 25998,
       26604, 27217, 27838, 28467, 29104, 29748, 30399, 31059, 31726, 32401, 33084, 33775,
       34473, 35179, 35893, 36615, 37344, 38082, 38827, 39580, 40342, 41111, 41888, 42673,
       43465, 44266, 45075, 45892, 46717, 47550, 48391, 49240, 50097, 50962, 51835, 52716,
       53605, 54503, 55408, 56322, 57244, 58174, 59113, 60059, 61014, 61977, 62948, 63927,
       64915, 65911, 66915, 67927, 68948, 69977, 71014, 72060, 73114, 74177, 75247, 76326,
       77414, 78510, 79614, 80727, 81848, 82978, 84116, 85263, 86418, 87581, 88753, 89934,
       91123, 92320, 93526, 94741, 95964, 97196, 98436, 99685, 100942, 102208, 103483, 104766,
       106058, 107359, 108668, 109986, 111313, 112648, 113992, 115345, 116706, 118076, 119455, 120842,
       122239, 123644, 125057, 126480, 127911, 129351, 130800, 132258, 133725, 135200, 136684, 138177,
       139679, 141190, 142710, 144238, 145776, 147322, 148877, 150441, 152014, 153596, 155187, 156787,
       158396, 160014, 161640, 163276, 164921, 166575, 168237, 169909, 171590, 173279, 174978, 176686,
       178403, 180129, 181864, 183608, 185361, 187124, 188895, 190675, 192465, 194264, 196072, 197889,
       199715, 201550, 203395, 205248, 207111, 208983, 210864, 212755, 214654, 216563, 218481, 220408,
       222345, 224290, 226245, 228210, 230183, 232166, 234158, 236159, 238170, 240190, 242219, 244258,
       246306, 248363, 250429, 252505, 254590, 256685, 258789, 260902, 263025, 265157, 267299, 269450,
       271610, 273780, 275959, 278147, 280345, 282553, 284770, 286996, 289232, 291477, 293732, 295996,
       298270, 300553, 302845, 305148, 307459, 309781, 312111, 314452, 316802, 319161, 321530, 323908,
       326296, 328694, 331101, 333518, 335944, 338380, 340826, 343281, 345746, 348220, 350704, 353198,
       355701, 358214, 360737, 363269, 365811, 368363, 370924, 373495, 376076, 378666, 381266, 383876,
       386496, 389125, 391764, 394412, 397071, 399739, 402417, 405105, 407802, 410509, 413226, 415953,
       418689, 421436, 424192, 426958, 429733, 432519, 435314, 438120, 440935, 443759, 446594, 449439,
       452293, 455157, 458031, 460915, 463809, 466713, 469627, 472550, 475484, 478427, 481380, 484343,
       487316, 490299, 493292, 496295, 499308, 502331, 505364, 508406, 511459, 514522, 517594, 520677,
       523769, 526872, 529984, 533107, 536239, 539382, 542535, 545697, 548870, 552053, 555245, 558448,
       561661, 564884, 568117, 571360, 574613, 577876, 581149, 584433, 587726, 591029, 594343, 597667,
       601001, 604345, 607699, 611063, 614437, 617822, 621216, 624621, 628036, 631461, 634896, 638342,
       641797, 645263, 648739, 652225, 655721, 659228, 662745, 666272, 669809, 673356, 676914, 680482,
       684060, 687648, 691246, 694855, 698474, 702104, 705743, 709393, 713053, 716723, 720404, 724095,
       727796, 731508, 735230, 738962, 742704, 746457, 750220, 753993, 757777, 761571, 765375, 769190,
       773015, 776851, 780696, 784553, 788419, 792296, 796183, 800081, 803989, 807907, 811836, 815775,
       819725, 823685, 827655, 831636, 835628, 839629, 843641, 847664, 851697, 855740, 859794, 863859,
       867933, 872019, 876114, 880221, 884337, 888464, 892602, 896750, 900909, 905078, 909258, 913448,
       917648, 921859, 926081, 930313, 934556, 938809, 943073, 947347, 951632, 955928, 960234, 964550,
       968877, 973215, 977563, 981922, 986291, 990671, 995062, 999463, 1003875, 1008297, 1012730, 1017174,
       1021628, 1026093, 1030568, 1035054, 1039551, 1044058, 1048576, 1053105, 1057644, 1062194, 1066754, 1071325,
       1075907, 1080500, 1085103, 1089717, 1094342, 1098977, 1103623, 1108279, 1112947, 1117625, 1122313, 1127013,
       1131723, 1136444, 1141175, 1145918, 1150671, 1155435, 1160209, 1164994, 1169790, 1174597, 1179415, 1184243,
       1189082, 1193932, 1198792, 1203664, 1208546, 1213439, 1218342, 1223257, 1228182, 1233118, 1238065, 1243023,
       1247991, 1252970, 1257961, 1262961, 1267973, 1272996, 1278029, 1283073, 1288128, 1293194, 1298271, 1303359,
       1308457, 1313567, 1318687, 1323818, 1328960, 1334113, 1339276, 1344451, 1349636, 1354833, 1360040, 1365258,
       1370487, 1375727, 1380978, 1386240, 1391512, 1396796, 1402091, 1407396, 1412713, 1418040, 1423378, 1428727,
       1434087, 1439459, 1444841, 1450234, 1455638, 1461053, 1466479, 1471915, 1477363, 1482822, 1488292, 1493773,
       1499265, 1504767, 1510281, 1515806, 1521342, 1526889, 1532446, 1538015, 1543595, 1549186, 1554788, 1560401,
       1566025, 1571660, 1577306, 1582963, 1588631, 1594310, 1600001, 1605702, 1611414, 1617138, 1622872, 1628618,
       1634375, 1640142, 1645921, 1651711, 1657512, 1663324, 1669148, 1674982, 1680827, 1686684, 1692552, 1698430,
       1704320, 1710221, 1716133, 1722057, 1727991, 1733937, 1739893, 1745861, 1751840, 1757830, 1763831, 1769844,
       1775867, 1781902, 1787948, 1794005, 1800073, 1806153, 1812244, 1818345, 1824458, 1830583, 1836718, 1842865,
       1849022, 1855191, 1861372, 1867563, 1873766, 1879980, 1886205, 1892441, 1898689, 1904947, 1911217, 1917499,
       1923791, 1930095, 1936410, 1942736, 1949074, 1955422, 1961782, 1968154, 1974536, 1980930, 1987335, 1993752,
       2000179, 2006618, 2013069, 2019530, 2026003, 2032487, 2038983, 2045489, 2052007, 2058537, 2065078, 2071630,
       2078193, 2084768, 2091354, 2097951, 2104560, 2111180, 2117811, 2124454, 2131108, 2137773, 2144450, 2151138,
       2157837, 2164548, 2171270, 2178004, 2184749, 2191505, 2198273, 2205052, 2211842, 2218644, 2225457, 2232282,
       2239118, 2245966, 2252824, 2259695, 2266576, 2273470, 2280374, 2287290, 2294217, 2301156, 2308106, 2315068,
       2322041, 2329026, 2336022, 2343029, 2350048, 2357078, 2364120, 2371173, 2378238, 2385314, 2392402, 2399501,
       2406611, 2413734, 2420867, 2428012, 2435169, 2442337, 2449516, 2456707, 2463910, 2471124, 2478349, 2485586,
       2492835, 2500095, 2507366, 2514649, 2521944, 2529250, 2536568, 2543897, 2551238, 2558590, 2565954, 2573329,
       2580716, 2588114, 2595524, 2602946, 2610379, 2617824, 2625280, 2632748, 2640227, 2647718, 2655221, 2662735,
       2670261, 2677798, 2685347, 2692907, 2700479, 2708063, 2715658, 2723265, 2730884, 2738514, 2746156, 2753809,
       2761474, 2769150, 2776839, 2784538, 2792250, 2799973, 2807708, 2815454, 2823212, 2830982, 2838763, 2846556,
       2854361, 2862177, 2870005, 2877844, 2885696, 2893559, 2901433, 2909319, 2917217, 2925127, 2933048, 2940981,
       2948926, 2956882, 2964850, 2972830, 2980822, 2988825, 2996840, 3004866, 3012905, 3020955, 3029016, 3037090,
       3045175, 3053272, 3061381, 3069501, 3077633, 3085777, 3093933, 3102100, 3110279, 3118470, 3126672, 3134887,
       3143113, 3151351, 3159600, 3167862, 3176135, 3184420, 3192716, 3201025, 3209345, 3217677, 3226021, 3234376,
       3242744, 3251123, 3259514, 3267917, 3276331, 3284758, 3293196, 3301646, 3310108, 3318581, 3327067, 3335564,
       3344073, 3352594, 3361127, 3369671, 3378228, 3386796, 3395376, 3403968, 3412572, 3421187, 3429815, 3438454,
       3447105, 3455768, 3464443, 3473130, 3481829, 3490539, 3499262, 3507996, 3516742, 3525500, 3534270, 3543052,
       3551845, 3560651, 3569468, 3578298, 3587139, 3595992, 3604857, 3613734, 3622623, 3631524, 3640437, 3649361,
       3658298, 3667246, 3676207, 3685179, 3694163, 3703159, 3712167, 3721188, 3730220, 3739263, 3748319, 3757387,
       3766467, 3775559, 3784662, 3793778, 3802906, 3812045, 3821197, 3830361, 3839536, 3848724, 3857923, 3867134,
       3876358, 3885593, 3894841, 3904100, 3913371, 3922655, 3931950, 3941258, 3950577, 3959908, 3969252, 3978607,
       3987975, 3997354, 4006746, 4016149, 4025565, 4034992, 4044432, 4053883, 4063347, 4072823, 4082310, 4091810,
       4101322, 4110846, 4120382, 4129930, 4139490, 4149062, 4158646, 4168242, 4177850, 4187471, 4197103, 4206748,
       4216404, 4226073, 4235754, 4245446, 4255151, 4264868, 4274597, 4284338, 4294092, 4303857, 4313634, 4323424,
       4333226, 4343039, 4352865, 4362703, 4372553, 4382416, 4392290, 4402176, 4412075, 4421986, 4431909, 4441844,
       4451791, 4461750, 4471721, 4481705, 4491701, 4501708, 4511728, 4521761, 4531805, 4541861, 4551930, 4562011,
       4572104, 4582209, 4592326, 4602456, 4612597, 4622751, 4632917, 4643095, 4653285, 4663488, 4673703, 4683930,
       4694169, 4704420, 4714684, 4724959, 4735247, 4745547, 4755860, 4766184, 4776521, 4786870, 4797231, 4807604,
       4817990
    >>

\* f32::powf(x, 2.2) for 0 <= x <= 2, in 20-bit fixed point: the table,
\* interpolated linearly between two grid points
Pow22(x) ==
    LET p == RMul(x, RInt(2 * U8Max))
        j == RFloor(p)
        rem == p[1] - j * p[2]
    IN  IF j >= Len(Pow22Table) - 1
        THEN Pow22Table[Len(Pow22Table)]
        ELSE Pow22Table[j + 1] + ((Pow22Table[j + 2] - Pow22Table[j + 1]) * rem) \div p[2]

\* the largest grid index g in lo..hi-1 with Pow22Table[g + 1] <= lin
RECURSIVE GridBelow(_, _, _)
GridBelow(lo, hi, lin) ==
    IF hi - lo <= 1
    THEN lo
    ELSE LET mid == (lo + hi) \div 2
         IN  IF Pow22Table[mid + 1] <= lin
             THEN GridBelow(mid, hi, lin)
             ELSE GridBelow(lo, mid, lin)

\* f32::powf(lin, 1 / 2.2) of a fixed-point value, truncated to the grid of
\* 1/510: to_u8_clamped, which rounds at the half steps of 1/255, cannot
\* tell the truncated value from the exact one
Root22(lin) == Rat(GridBelow(0, Len(Pow22Table), lin), 2 * U8Max)

\* a faulty variant, for comparison: the weights of the two values are swapped
AlphaBlendSwapped(val1, val2, alpha) ==
    LET one_minus == RSub(RInt(1), alpha)
    IN  Root22((Pow22(val1) * alpha[1]) \div alpha[2]
                + (Pow22(val2) * one_minus[1]) \div one_minus[2])

AlphaBlend(val1, val2, alpha) ==
    LET val1_gamma_corrected == Pow22(val1)
        val2_gamma_corrected == Pow22(val2)
        one_minus == RSub(RInt(1), alpha)
        result == (val1_gamma_corrected * one_minus[1]) \div one_minus[2]
                    + (val2_gamma_corrected * alpha[1]) \div alpha[2]
    IN  Root22(result)

\* a faulty variant, for comparison: the gain of 2 is left out
ApplyLightingNoGain(color, light) == RMul(color, light)

\* the closure apply_lighting
ApplyLighting(color, light) == RMul(RMul(color, light), RInt(2))

\* the closure get_result; alpha is layer_alpha * uv_alpha
GetResult(b, layer, light, layer_alpha, uv_alpha) ==
    AlphaBlend(b, ApplyLighting(layer, light), RMul(layer_alpha, uv_alpha))

\* a faulty variant, for comparison: the layer's alpha replaces the canvas alpha instead of adding to it
AlphaFinalReplacing(current_alpha, layer_alpha, uv_alpha) == RMul(layer_alpha, uv_alpha)

AlphaFinal(current_alpha, layer_alpha, uv_alpha) ==
    RAdd(current_alpha, RMul(layer_alpha, uv_alpha))

\* the body of the loop of blend_layer_with_base for one destination pixel:
\* the canvas pixel, the layer's UV quad, the sampled texel and the lighting
\* pixel give the new canvas pixel
BlendPixel(current, uv, layer_color, light) ==
    LET cur == NormalizeRgbaU8(current)
        uv_alpha == NormalizeRgbaU16(uv)[4]
        layer == NormalizeRgbaU8(layer_color)
        lit == NormalizeRgbaU8(light)
        r == GetResult(cur[1], layer[1], lit[1], layer[4], uv_alpha)
        g == GetResult(cur[2], layer[2], lit[2], layer[4], uv_alpha)
        b == GetResult(cur[3], layer[3], lit[3], layer[4], uv_alpha)
        alpha_final == AlphaFinal(cur[4], layer[4], uv_alpha)
    IN  <<ToU8Clamped(r), ToU8Clamped(g), ToU8Clamped(b), ToU8Clamped(alpha_final)>>

\* the texel the loop body samples for destination pixel (x, y)
LayerColor(uvs, tex, x, y) ==
    LET uv == NormalizeRgbaU16(GetPixel(uvs, x, y))
    IN  SampleTexture(tex, uv[1], uv[2])

\* a faulty variant, for comparison: the canvas pixel is read one column to the right (wrapping)
BlendAtNeighbour(b, uvs, tex, light, x, y) ==
    [b EXCEPT !.px[<<x, y>>] =
        BlendPixel(GetPixel(b, (x + 1) % b.w, y), GetPixel(uvs, x, y),
                   LayerColor(uvs, tex, x, y), GetPixel(light, x, y))]

\* one iteration of the loop: the canvas with pixel (x, y) blended
BlendAt(b, uvs, tex, light, x, y) ==
    [b EXCEPT !.px[<<x, y>>] =
        BlendPixel(GetPixel(b, x, y), GetPixel(uvs, x, y),
                   LayerColor(uvs, tex, x, y), GetPixel(light, x, y))]

\* the i-th pixel of the loop nest: x is the outer loop, y the inner one
LoopPixel(b, i) == <<i \div b.h, i % b.h>>

\* the iterations i .. width*height - 1 of the loop nest, in order
RECURSIVE BlendFrom(_, _, _, _, _)
BlendFrom(b, uvs, tex, light, i) ==
    IF i >= b.w * b.h
    THEN b
    ELSE LET p == LoopPixel(b, i)
         IN  BlendFrom(BlendAt(b, uvs, tex, light, p[1], p[2]), uvs, tex, light, i + 1)

\* blend_layer_with_base on maps at least as large as the canvas
BlendLayerWithBase(b, uvs, tex, light) == BlendFrom(b, uvs, tex, light, 0)

----------------------------------------------------------------------------
(* Idle values of the components a specification does not run *)

NoRet == [none |-> TRUE]

PureIdle == args = [kind |-> "none"] /\ pc = "idle" /\ ret = NoRet

EmptyImage == [w |-> 0, h |-> 0, px |-> <<>>]

CanvasIdle ==
    /\ base = EmptyImage /\ layer_uvs = EmptyImage /\ lighting = EmptyImage
    /\ texture = EmptyImage /\ pending = {} /\ status = "idle"
    /\ baseBefore = EmptyImage /\ blended = <<>>

CharaIdle == chara = [kind |-> "none"] /\ warped = EmptyImage /\ output = EmptyImage /\ cpc = "idle"

----------------------------------------------------------------------------
(* Sample data *)

TexelSamples ==
    << <<0, 0, 0, 0>>, <<255, 128, 0, 255>>, <<100, 200, 50, 85>>,
       <<255, 255, 255, 255>>, <<60, 90, 200, 170>> >>

\* a skin texture: texel (x, y) of texture number k
TextureOf(k, w, h) ==
    Image(w, h, LAMBDA x, y :
        TexelSamples[(((1 + k \div Len(TexelSamples)) * x + 2 * y + k) % Len(TexelSamples)) + 1])

----------------------------------------------------------------------------
(* Specification of the sampler: one call of interpolate_nearest or of      *)
(* sample_texture on sampled coordinates and every dimension 1..MaxDim      *)

CoordDens == {2, 3, 8}

CoordSamples ==
    UNION {{Rat(n, d) : n \in -2 .. d + 2} : d \in CoordDens}
        \cup {NormalizeU16(u) : u \in {0, 1, 16384, 32767, 32768, 49152, 65534, 65535}}

SamplerArgs ==
    [kind : {"sampler"}, x : CoordSamples, y : CoordSamples,
     width : 1 .. MaxDim, height : 1 .. MaxDim]

InitSampler == args \in SamplerArgs /\ pc = "ready" /\ ret = NoRet /\ CanvasIdle /\ CharaIdle

CallInterpolateNearest ==
    /\ pc = "ready" /\ args.kind = "sampler"
    /\ ret' = [idx |-> InterpolateNearest(args.x, args.y, args.width, args.height),
               cx |-> args.x, cy |-> args.y, panicked |-> FALSE]
    /\ pc' = "interpolated"
    /\ UNCHANGED <<args, canvasVars, charaVars>>

CallSampleTexture ==
    /\ pc = "ready" /\ args.kind = "sampler"
    /\ LET image == TextureOf(0, args.width, args.height)
           p == SampleIndex(image, args.x, args.y)
       IN  ret' = [idx |-> p, cx |-> args.x, cy |-> RSub(RInt(1), args.y),
                   panicked |-> ~InBounds(image, p[1], p[2])]
    /\ pc' = "sampled"
    /\ UNCHANGED <<args, canvasVars, charaVars>>

NextSampler == CallInterpolateNearest \/ CallSampleTexture

SpecSampler == InitSampler /\ [][NextSampler]_vars

----------------------------------------------------------------------------
(* Specification of the quantizer: one call of to_u8_clamped, or one        *)
(* normalize-then-quantize round trip of a channel byte                     *)

QuantInputs ==
    {Rat(n, 255) : n \in -10 .. 300} \cup {Rat(n, 510) : n \in -5 .. 520}
        \cup {Rat(n, 2) : n \in -3 .. 3} \cup {Rat(n, 1000) : n \in {-1500, 999, 1010}}

QuantArgs ==
    {[kind |-> "quantize", x |-> r, c |-> 0] : r \in QuantInputs}
        \cup {[kind |-> "roundtrip", x |-> RInt(0), c |-> c] : c \in 0 .. U8Max}

InitQuant == args \in QuantArgs /\ pc = "ready" /\ ret = NoRet /\ CanvasIdle /\ CharaIdle

CallToU8Clamped ==
    /\ pc = "ready" /\ args.kind = "quantize"
    /\ ret' = [x |-> args.x, out |-> ToU8Clamped(args.x)]
    /\ pc' = "quantized"
    /\ UNCHANGED <<args, canvasVars, charaVars>>

CallNormalizeQuantize ==
    /\ pc = "ready" /\ args.kind = "roundtrip"
    /\ ret' = [x |-> NormalizeU8(args.c), out |-> ToU8Clamped(NormalizeU8(args.c))]
    /\ pc' = "quantized"
    /\ UNCHANGED <<args, canvasVars, charaVars>>

NextQuant == CallToU8Clamped \/ CallNormalizeQuantize

SpecQuant == InitQuant /\ [][NextQuant]_vars

----------------------------------------------------------------------------
(* C2: for every coordinate pair, also below 0 and above 1, and every width *)
(* and height >= 1, interpolate_nearest returns 0 <= ix <= width-1 and      *)
(* 0 <= iy <= height-1; a coordinate >= 1 gives the last index, one <= 0    *)
(* gives index 0, and sample_texture's get_pixel stays inside the texture.  *)
C2_IndexInBounds ==
    pc \in {"interpolated", "sampled"} =>
        /\ ret.idx[1] \in 0 .. args.width - 1
        /\ ret.idx[2] \in 0 .. args.height - 1
        /\ (RLeq(RInt(1), ret.cx) => ret.idx[1] = args.width - 1)
        /\ (RLeq(RInt(1), ret.cy) => ret.idx[2] = args.height - 1)
        /\ (RLeq(ret.cx, RInt(0)) => ret.idx[1] = 0)
        /\ (RLeq(ret.cy, RInt(0)) => ret.idx[2] = 0)
        /\ ~ret.panicked

\* sample_texture was called with u above 1 and the flipped v below 0 on a
\* texture of at least 2x2, and resolved the last column and the first row
C2_Witness ==
    /\ pc = "sampled" /\ args.width >= 2 /\ args.height >= 2
    /\ ~RLeq(ret.cx, RInt(1)) /\ ~RLeq(RInt(0), ret.cy)
    /\ ret.idx = <<args.width - 1, 0>>

\* clamp(round(coord * dim - 0.5), 0, dim - 1), round as f32::round
RoundIndex(coord, dim) ==
    Max(0, Min(dim - 1, RRound(RSub(RMul(coord, RInt(dim)), <<1, 2>>))))

\* clamp(floor(coord * dim), 0, dim - 1)
FloorIndex(coord, dim) == Max(0, Min(dim - 1, RFloor(RMul(coord, RInt(dim)))))

----------------------------------------------------------------------------
\* round-half-up of x * 255, clamped to 0..255
HalfUpClamped(x) ==
    LET y == RMul(x, RInt(255))
    IN  Max(0, Min(255, (2 * y[1] + y[2]) \div (2 * y[2])))

(* C7: to_u8_clamped(x) is round-half-up of x*255 clamped to [0, 255]:      *)
(* below 0 gives 0, above 255 gives 255, exact halves round up              *)
(* (to_u8_clamped(0.5) = 128), and to_u8_clamped(c/255) = c for c in 0..255 *)
C7_QuantizeHalfUp ==
    pc = "quantized" =>
        /\ ret.out = HalfUpClamped(ret.x)
        /\ ret.out \in 0 .. 255
        /\ (ret.x = <<1, 2>> => ret.out = 128)
        /\ (ret.x = <<-3, 2>> => ret.out = 0)
        /\ (ret.x = <<101, 100>> => ret.out = 255)
        /\ (args.kind = "roundtrip" => ret.out = args.c /\ ret.x = Rat(args.c, 255))
        /\ (args.kind = "roundtrip" /\ args.c = 0 => ret.x = RInt(0))
        /\ (args.kind = "roundtrip" /\ args.c = 255 => ret.x = RInt(1))

\* an exact half was quantized: 0.5 * 255 = 127.5 gave 128
C7_Witness == pc = "quantized" /\ args.kind = "quantize" /\ ret.x = <<1, 2>> /\ ret.out = 128

----------------------------------------------------------------------------
(* Sample maps.  The UV and lighting maps of the program are PNG assets     *)
(* compiled into the binary; the model draws theirs from these samples.     *)

\* UV quads (u, v, unused, mask_alpha), 16 bits a channel
QuadSamples ==
    << <<0, 65535, 12345, 65535>>, <<16384, 49152, 0, 65535>>, <<32768, 32768, 7, 0>>,
       <<49152, 16384, 0, 21845>>, <<65535, 0, 65535, 43690>>, <<20000, 40000, 0, 13107>>,
       <<40000, 10000, 0, 65535>> >>

\* lighting pixels, 8 bits a channel
LightSamples ==
    << <<128, 128, 128, 255>>, <<255, 255, 255, 255>>, <<64, 100, 200, 255>>,
       <<0, 0, 0, 255>>, <<51, 128, 255, 0>> >>

\* the UV map number k, of the given size
UvMapOf(k, w, h) ==
    Image(w, h, LAMBDA x, y : QuadSamples[((3 * x + 5 * y + 2 * k) % Len(QuadSamples)) + 1])

\* the lighting map number k, of the given size
LightMapOf(k, w, h) ==
    Image(w, h, LAMBDA x, y : LightSamples[((x + 2 * y + k) % Len(LightSamples)) + 1])

\* a canvas some earlier passes have left: canvas number k
CanvasOf(k, w, h) ==
    IF k = 0
    THEN NewImageBuffer(w, h)
    ELSE Image(w, h, LAMBDA x, y :
            <<(40 * k + 90 * x + 7 * y) % 256, (200 + 31 * k * x + y) % 256,
              (17 * k + 5 * y) % 256, (100 * k + 155 * x + 55 * y) % 256>>)

----------------------------------------------------------------------------
(* Specification of one loop iteration: the body of the loop of             *)
(* blend_layer_with_base on every canvas value 0..255 and on sampled        *)
(* texels, mask alphas and lighting values                                  *)

UvAlphaSamples == {0, 13107, 21845, 43690, 65535}

PixelLights == {<<128, 128, 128, 255>>, <<255, 255, 255, 255>>, <<64, 100, 200, 0>>}

PixelArgs ==
    {[kind |-> "pixel",
      current |-> <<c, (7 * c + 13) % 256, 255 - c, (3 * c) % 256>>,
      uv |-> <<0, 0, 0, a>>, layer_color |-> TexelSamples[t], light |-> l] :
        c \in 0 .. U8Max, a \in UvAlphaSamples, t \in 1 .. Len(TexelSamples), l \in PixelLights}

InitPixel == args \in PixelArgs /\ pc = "ready" /\ ret = NoRet /\ CanvasIdle /\ CharaIdle

CallBlendPixel ==
    /\ pc = "ready" /\ args.kind = "pixel"
    /\ ret' = [out |-> BlendPixel(args.current, args.uv, args.layer_color, args.light)]
    /\ pc' = "blended"
    /\ UNCHANGED <<args, canvasVars, charaVars>>

NextPixel == CallBlendPixel

SpecPixel == InitPixel /\ [][NextPixel]_vars

----------------------------------------------------------------------------
(* Specification of the blend passes: up to MaxPasses passes of             *)
(* blend_layer_with_base on one canvas, each with one of the sample layers, *)
(* the iterations of a pass taken in any order                              *)

BlendLayers == 1 .. 4

InitBlend ==
    /\ texture \in {TextureOf(k, MaxDim, MaxDim) : k \in 0 .. 1}
    /\ base \in {CanvasOf(k, CanvasW, CanvasH) : k \in 0 .. 1}
    /\ baseBefore = base
    /\ layer_uvs = EmptyImage /\ lighting = EmptyImage
    /\ pending = {} /\ status = "created" /\ blended = <<>>
    /\ PureIdle /\ CharaIdle

\* blend_layer_with_base is called with layer k's maps
BeginPass(k) ==
    /\ status \in {"created", "returned"}
    /\ Len(blended) < MaxPasses
    /\ layer_uvs' = UvMapOf(k, base.w, base.h)
    /\ lighting' = LightMapOf(k, base.w, base.h)
    /\ pending' = Coords(base.w, base.h)
    /\ baseBefore' = base
    /\ blended' = Append(blended, k)
    /\ status' = "running"
    /\ UNCHANGED <<base, texture, pureVars, charaVars>>

\* the loop iteration for pixel p; get_pixel panics when p lies outside the
\* UV map or the lighting map
BlendStep(p) ==
    /\ status = "running"
    /\ p \in pending
    /\ IF InBounds(layer_uvs, p[1], p[2]) /\ InBounds(lighting, p[1], p[2])
       THEN /\ base' = BlendAt(base, layer_uvs, texture, lighting, p[1], p[2])
            /\ pending' = pending \ {p}
            /\ status' = IF pending' = {} THEN "returned" ELSE "running"
       ELSE /\ status' = "panicked"
            /\ UNCHANGED <<base, pending>>
    /\ UNCHANGED <<layer_uvs, lighting, texture, baseBefore, blended, pureVars, charaVars>>

BlendAnyPixel == \E p \in pending : BlendStep(p)

NextBlend == (\E k \in BlendLayers : BeginPass(k)) \/ BlendAnyPixel

SpecBlend == InitBlend /\ [][NextBlend]_vars

----------------------------------------------------------------------------
\* the 8-bit sum of a canvas alpha and sampled_alpha * mask_alpha, rounded
\* to the nearest and capped at 255
QuantizedAlphaSum(canvas_alpha, sampled_alpha, mask_alpha) ==
    Min(255, canvas_alpha + (2 * sampled_alpha * mask_alpha + 65535) \div (2 * 65535))

(* C3: in every step of every sequence of passes, every canvas pixel's      *)
(* alpha is >= its alpha before, the pixel the step blends gets the         *)
(* quantized sum canvas_alpha + sampled_alpha * mask_alpha capped at 255,   *)
(* and an alpha of 255 stays 255.                                           *)
C3_AlphaMonotone ==
    [][\A p \in DOMAIN base.px :
          /\ base'.px[p][4] >= base.px[p][4]
          /\ (base.px[p][4] = 255 => base'.px[p][4] = 255)
          /\ (p \in pending /\ p \notin pending' =>
                base'.px[p][4] =
                    QuantizedAlphaSum(base.px[p][4],
                                      LayerColor(layer_uvs, texture, p[1], p[2])[4],
                                      GetPixel(layer_uvs, p[1], p[2])[4]))]_vars

\* a second pass has raised a pixel's alpha from a value strictly between 0
\* and 255 to a larger one
C3_Witness ==
    /\ Len(blended) = 2
    /\ \E p \in DOMAIN base.px :
          /\ p \notin pending
          /\ baseBefore.px[p][4] \in 1 .. 254
          /\ base.px[p][4] > baseBefore.px[p][4]

(* C4: a loop iteration whose UV quad has mask_alpha 0, or whose sampled    *)
(* texel has alpha 0, leaves all four channels of the canvas pixel as they  *)
(* were, for every canvas value 0..255, texel colour and lighting value.    *)
C4_ZeroAlphaKeepsPixel ==
    pc = "blended" /\ (args.uv[4] = 0 \/ args.layer_color[4] = 0) => ret.out = args.current

\* a masked-out quad over an opaque white texel on a coloured canvas pixel
C4_Witness ==
    /\ pc = "blended" /\ args.uv[4] = 0 /\ args.layer_color = <<255, 255, 255, 255>>
    /\ args.current = <<100, 201, 155, 44>> /\ ret.out = args.current

\* to_u8_clamped(channel * lighting * 2.0), in integers:
\* round(2 * c * l / 255) capped at 255
LitByte(c, l) == Min(255, (4 * c * l + 255) \div 510)

(* C5: a loop iteration with texel alpha 255 and mask alpha 65535           *)
(* (effective_alpha = 1.0) sets each colour channel to                      *)
(* to_u8_clamped(texel_channel * lighting * 2.0), whatever colour the       *)
(* canvas had.                                                              *)
C5_OpaqueGivesLit ==
    pc = "blended" /\ args.uv[4] = 65535 /\ args.layer_color[4] = 255 =>
        \A i \in 1 .. 3 : ret.out[i] = LitByte(args.layer_color[i], args.light[i])

\* an opaque texel under half lighting replaced a coloured canvas pixel
C5_Witness ==
    /\ pc = "blended" /\ args.uv[4] = 65535 /\ args.layer_color = <<255, 128, 0, 255>>
    /\ args.light = <<128, 128, 128, 255>> /\ args.current[1] = 10
    /\ ret.out[1] = 255 /\ ret.out[2] = 129 /\ ret.out[3] = 0

(* C10: in a pass, the iteration for pixel (x, y) writes canvas(x, y) only  *)
(* and computes it from canvas(x, y), uv(x, y), lighting(x, y) and the      *)
(* texture alone, so in whatever order the iterations run the canvas after  *)
(* the pass is the one the sequential loop nest computes.                   *)
C10_OrderIndependent ==
    status \in {"running", "returned"} =>
        /\ \A p \in pending : base.px[p] = baseBefore.px[p]
        /\ \A p \in DOMAIN base.px \ pending :
              base.px[p] = BlendPixel(baseBefore.px[p], layer_uvs.px[p],
                                      LayerColor(layer_uvs, texture, p[1], p[2]),
                                      lighting.px[p])
        /\ (status = "returned" =>
              base = BlendLayerWithBase(baseBefore, layer_uvs, texture, lighting))

\* the last pixel of the loop nest has been blended, and changed, while the
\* first one is still to come
C10_Witness ==
    /\ status = "running" /\ pending = {<<0, 0>>}
    /\ \E p \in DOMAIN base.px : p # <<0, 0>> /\ base.px[p] # baseBefore.px[p]

----------------------------------------------------------------------------
(* Layer pipeline: create_render *)

\* the embedded UV maps and lighting maps, in the order create_render loads them
UvAssets ==
    <<"head_uvs", "head_uvs2", "chest_uvs", "chest_uvs2", "leg_rl_uvs", "leg_l_uvs2",
      "leg_r_uvs2", "arm_l_uvs", "arm_r_uvs", "arm_l_uvs2", "arm_r_uvs2">>

LightAssets ==
    <<"lighting", "lighting_leg_l2", "lighting_leg_r2", "lighting_arm_l2",
      "lighting_arm_r2", "lighting_chest2", "lighting_head2">>

IndexOf(seq, name) == CHOOSE i \in DOMAIN seq : seq[i] = name

\* the content of an embedded map: all maps of one render have one size
UvAsset(name) == UvMapOf(IndexOf(UvAssets, name), CanvasW, CanvasH)

LightAsset(name) == LightMapOf(IndexOf(LightAssets, name), CanvasW, CanvasH)

\* a faulty variant, for comparison: the front arm is blended before the overlays
DrawOrderFrontArmEarly ==
    << [uvs |-> "leg_rl_uvs", lighting |-> "lighting"],
       [uvs |-> "arm_l_uvs", lighting |-> "lighting"],
       [uvs |-> "head_uvs", lighting |-> "lighting"],
       [uvs |-> "chest_uvs", lighting |-> "lighting"],
       [uvs |-> "arm_r_uvs", lighting |-> "lighting"],
       [uvs |-> "arm_l_uvs2", lighting |-> "lighting_arm_l2"],
       [uvs |-> "chest_uvs2", lighting |-> "lighting_chest2"],
       [uvs |-> "head_uvs2", lighting |-> "lighting_head2"],
       [uvs |-> "leg_l_uvs2", lighting |-> "lighting_leg_l2"],
       [uvs |-> "leg_r_uvs2", lighting |-> "lighting_leg_r2"],
       [uvs |-> "arm_r_uvs2", lighting |-> "lighting_arm_r2"] >>

\* the calls of blend_layer_with_base in create_render, in program order
DrawOrder ==
    << [uvs |-> "leg_rl_uvs", lighting |-> "lighting"],
       [uvs |-> "arm_l_uvs", lighting |-> "lighting"],
       [uvs |-> "head_uvs", lighting |-> "lighting"],
       [uvs |-> "chest_uvs", lighting |-> "lighting"],
       [uvs |-> "arm_l_uvs2", lighting |-> "lighting_arm_l2"],
       [uvs |-> "chest_uvs2", lighting |-> "lighting_chest2"],
       [uvs |-> "head_uvs2", lighting |-> "lighting_head2"],
       [uvs |-> "leg_l_uvs2", lighting |-> "lighting_leg_l2"],
       [uvs |-> "leg_r_uvs2", lighting |-> "lighting_leg_r2"],
       [uvs |-> "arm_r_uvs", lighting |-> "lighting"],
       [uvs |-> "arm_r_uvs2", lighting |-> "lighting_arm_r2"] >>

SkinTextures == {TextureOf(k, MaxDim, MaxDim) : k \in 0 .. 9}

InitRender ==
    /\ texture \in SkinTextures
    /\ base = EmptyImage /\ baseBefore = EmptyImage
    /\ layer_uvs = EmptyImage /\ lighting = EmptyImage
    /\ pending = {} /\ status = "start" /\ blended = <<>>
    /\ PureIdle /\ CharaIdle

\* let mut output = ImageBuffer::new(head_uvs.dimensions())
NewOutput ==
    /\ status = "start"
    /\ base' = NewImageBuffer(UvAsset("head_uvs").w, UvAsset("head_uvs").h)
    /\ status' = "created"
    /\ UNCHANGED <<layer_uvs, lighting, texture, pending, baseBefore, blended, pureVars, charaVars>>

\* the next call of blend_layer_with_base, a whole pass
BlendNextLayer ==
    /\ status = "created"
    /\ Len(blended) < Len(DrawOrder)
    /\ LET layer == DrawOrder[Len(blended) + 1]
       IN  /\ layer_uvs' = UvAsset(layer.uvs)
           /\ lighting' = LightAsset(layer.lighting)
           /\ baseBefore' = base
           /\ base' = BlendLayerWithBase(base, layer_uvs', texture, lighting')
           /\ blended' = Append(blended, layer.uvs)
    /\ UNCHANGED <<texture, pending, status, pureVars, charaVars>>

\* create_render returns output
ReturnOutput ==
    /\ status = "created"
    /\ Len(blended) = Len(DrawOrder)
    /\ status' = "done"
    /\ UNCHANGED <<base, layer_uvs, lighting, texture, pending, baseBefore, blended, pureVars, charaVars>>

NextRender == NewOutput \/ BlendNextLayer \/ ReturnOutput

SpecRender == InitRender /\ [][NextRender]_vars

----------------------------------------------------------------------------
(* Specification of one pass on maps of any size: blend_layer_with_base on  *)
(* a canvas, a UV map and a lighting map whose sizes are drawn              *)
(* independently, the loop nest run in program order                        *)

MapSizes == (1 .. CanvasW + 1) \X (1 .. CanvasH + 1)

InitDims ==
    /\ texture = TextureOf(0, MaxDim, MaxDim)
    /\ \E b \in MapSizes, u \in MapSizes, l \in MapSizes :
          /\ base = NewImageBuffer(b[1], b[2])
          /\ layer_uvs = UvMapOf(1, u[1], u[2])
          /\ lighting = LightMapOf(1, l[1], l[2])
    /\ baseBefore = base
    /\ pending = Coords(base.w, base.h)
    /\ status = "running" /\ blended = <<1>>
    /\ PureIdle /\ CharaIdle

\* the next iteration of `for x in 0..base.width() { for y in 0..base.height()`
BlendNextPixel ==
    \E p \in pending :
        /\ \A q \in pending : p[1] * base.h + p[2] <= q[1] * base.h + q[2]
        /\ BlendStep(p)

NextDims == BlendNextPixel

SpecDims == InitDims /\ [][NextDims]_vars

SameDimensions ==
    /\ layer_uvs.w = base.w /\ layer_uvs.h = base.h
    /\ lighting.w = base.w /\ lighting.h = base.h

----------------------------------------------------------------------------
\* the layers the claim calls detail overlays
Overlays == {"arm_l_uvs2", "chest_uvs2", "head_uvs2", "leg_l_uvs2", "leg_r_uvs2", "arm_r_uvs2"}

BlendedSet == {blended[i] : i \in DOMAIN blended}

(* C6: create_render starts from a fully transparent canvas of the UV maps' *)
(* size and blends every layer exactly once, in one order for every         *)
(* texture: legs, far arm, head, torso, then the overlays, then the         *)
(* remaining arm; no overlay comes before the four back base layers, and    *)
(* the front arm's base layer comes after the other parts' overlays.        *)
C6_FixedDrawOrder ==
    /\ (status = "created" /\ blended = <<>> =>
            /\ base.w = UvAsset("head_uvs").w /\ base.h = UvAsset("head_uvs").h
            /\ \A p \in DOMAIN base.px : base.px[p] = <<0, 0, 0, 0>>)
    /\ (status = "start" => blended = <<>>)
    /\ \A i, j \in DOMAIN blended : i # j => blended[i] # blended[j]
    /\ (status = "done" => BlendedSet = {UvAssets[i] : i \in DOMAIN UvAssets})
    /\ \A i \in DOMAIN blended :
          /\ (i <= 4 => blended[i] = <<"leg_rl_uvs", "arm_l_uvs", "head_uvs", "chest_uvs">>[i])
          /\ (blended[i] \in Overlays => i > 4)
          /\ (blended[i] = "arm_r_uvs" =>
                (Overlays \ {"arm_r_uvs2"}) \subseteq {blended[j] : j \in 1 .. i - 1})
          /\ (blended[i] = "arm_r_uvs2" => "arm_r_uvs" \in {blended[j] : j \in 1 .. i - 1})
          /\ blended[i] = DrawOrder[i].uvs

\* create_render has returned a canvas that all eleven passes have worked on
C6_Witness ==
    /\ status = "done" /\ Len(blended) = 11
    /\ \E p \in DOMAIN base.px : base.px[p][4] > 0

(* C9: whenever the dimensions of the UV map or of the lighting map differ  *)
(* from each other or from the canvas, blend_layer_with_base fails instead  *)
(* of returning; it returns only when all three sizes are the same.         *)
C9_MismatchFailsFast ==
    /\ (status = "returned" => SameDimensions)
    /\ (status = "panicked" => ~SameDimensions)

----------------------------------------------------------------------------
(* Frame compositor: create_chara_image *)

RDiv(a, b) == RMul(a, <<b[2], b[1]>>)

\* imageproc's Clamp::clamp for u8, then the cast `as u8`, which truncates
ClampToU8(x) ==
    LET f == RFloor(x) IN IF f < 0 THEN 0 ELSE IF f > U8Max THEN U8Max ELSE f

\* imageproc's blend of the four neighbours, a channel at a time: the top
\* and the bottom pair first, each cast to u8, then the two results
BlendBilinear(top_left, top_right, bottom_left, bottom_right, right_weight, bottom_weight) ==
    LET Mix(u, v, wgt) ==
            ClampToU8(RAdd(RMul(RSub(RInt(1), wgt), RInt(u)), RMul(wgt, RInt(v))))
    IN  [i \in 1 .. 4 |->
            Mix(Mix(top_left[i], top_right[i], right_weight),
                Mix(bottom_left[i], bottom_right[i], right_weight), bottom_weight)]

\* imageproc's bilinear interpolate: the default pixel when one of the four
\* neighbours lies outside the image
InterpolateBilinear(image, x, y, default) ==
    LET left == RFloor(x)
        right == left + 1
        top == RFloor(y)
        bottom == top + 1
        right_weight == RSub(x, RInt(left))
        bottom_weight == RSub(y, RInt(top))
    IN  IF left < 0 \/ right >= image.w \/ top < 0 \/ bottom >= image.h
        THEN default
        ELSE BlendBilinear(GetPixel(image, left, top), GetPixel(image, right, top),
                           GetPixel(image, left, bottom), GetPixel(image, right, bottom),
                           right_weight, bottom_weight)

\* warp_into_with under the closure of create_chara_image: destination
\* pixel (x, y) samples the render at ((x - translate_x) / scale,
\* (y - translate_y) / scale), transparent black outside it
WarpIntoWith(render, scale, translate_x, translate_y, w, h) ==
    Image(w, h, LAMBDA x, y :
        InterpolateBilinear(render,
                            RDiv(RSub(RInt(x), translate_x), scale),
                            RDiv(RSub(RInt(y), translate_y), scale),
                            <<0, 0, 0, 0>>))

\* a faulty variant, for comparison: the target keeps its own alpha
CopyAlphaSkipped(target, source) == target

CopyAlpha(target, source) ==
    [target EXCEPT !.px =
        [p \in Coords(target.w, target.h) |->
            LET current == target.px[p]
                alpha == GetPixel(source, p[1], p[2])[4]
            IN  <<current[1], current[2], current[3], alpha>>]]

\* frame references: the alpha mask number k
ReferenceAlphas == <<255, 200, 0>>

ReferenceOf(k, w, h) ==
    Image(w, h, LAMBDA x, y :
        <<10 * k, 20 * x, 30 * y, ReferenceAlphas[((x + y + k) % Len(ReferenceAlphas)) + 1]>>)

\* a finished render: opaque inside, with a translucent and a transparent pixel
RenderOf(k, w, h) ==
    Image(w, h, LAMBDA x, y :
        <<(60 * k + 40 * x) % 256, (90 + 50 * y) % 256, (25 * k * (x + y)) % 256,
          IF (x + y + k) % 4 = 0 THEN 100 ELSE IF (x + 2 * y + k) % 5 = 0 THEN 0 ELSE 255>>)

CharaArgs ==
    [kind : {"chara"},
     render : {RenderOf(k, MaxDim, MaxDim) : k \in 0 .. 2},
     chara_reference : {ReferenceOf(k, CanvasW + 1, CanvasH + 1) : k \in 0 .. 2},
     scale : {<<1, 2>>, <<1, 1>>, <<5, 4>>, <<2, 1>>},
     translate_x : {<<-1, 1>>, <<0, 1>>, <<1, 2>>},
     translate_y : {<<0, 1>>, <<-1, 2>>}]

InitChara ==
    /\ chara \in CharaArgs
    /\ warped = EmptyImage /\ output = EmptyImage /\ cpc = "called"
    /\ PureIdle /\ CanvasIdle

\* create_chara_image, whole: the warp into a new buffer of the reference's
\* size, then copy_alpha
CreateCharaImage ==
    /\ cpc = "called"
    /\ warped' = WarpIntoWith(chara.render, chara.scale, chara.translate_x, chara.translate_y,
                              chara.chara_reference.w, chara.chara_reference.h)
    /\ output' = CopyAlpha(warped', chara.chara_reference)
    /\ cpc' = "returned"
    /\ UNCHANGED <<chara, pureVars, canvasVars>>

NextChara == CreateCharaImage

SpecChara == InitChara /\ [][NextChara]_vars

----------------------------------------------------------------------------
(* C1 as claimed: for every pixel of the output frame, the output alpha is  *)
(* the minimum of the warped render's alpha and the frame reference's       *)
(* alpha, so the mask never makes a pixel more opaque than the warped       *)
(* render.                                                                  *)
C1_MinimumAlpha ==
    cpc = "returned" =>
        \A p \in DOMAIN output.px :
            output.px[p][4] = Min(warped.px[p][4], chara.chara_reference.px[p][4])

(* C1 as amended: for every pixel of the output frame, the output alpha is  *)
(* the frame reference's alpha at that pixel, whatever the warped render's  *)
(* alpha there; the colour channels are the warped render's, and the frame  *)
(* has the reference's size.                                                *)
C1_ReferenceAlpha ==
    cpc = "returned" =>
        /\ output.w = chara.chara_reference.w /\ output.h = chara.chara_reference.h
        /\ \A p \in DOMAIN output.px :
              /\ output.px[p][4] = chara.chara_reference.px[p][4]
              /\ \A i \in 1 .. 3 : output.px[p][i] = warped.px[p][i]

\* the frame holds a pixel the warp left translucent under an opaque mask,
\* one it left opaque under a mask of 200, and one outside the render
C1_Witness ==
    /\ cpc = "returned"
    /\ \E p \in DOMAIN output.px :
          /\ warped.px[p][4] \in 1 .. 254
          /\ chara.chara_reference.px[p][4] = 255
          /\ output.px[p][4] = 255
    /\ \E p \in DOMAIN output.px :
          /\ warped.px[p][4] = 255
          /\ chara.chara_reference.px[p][4] = 200
          /\ output.px[p][4] = 200
    /\ \E p \in DOMAIN output.px :
          /\ warped.px[p] = <<0, 0, 0, 0>>
          /\ chara.chara_reference.px[p][4] = 255
          /\ output.px[p][4] = 255

====
